---------------------------- MODULE Spec2Model ----------------------------
(***************************************************************************)
(* A model of the CHIP-8 machine of src/src/chip8.rs: the struct Chip8,    *)
(* its reset (init), one instruction cycle (emulateCycle) with every       *)
(* opcode handler it dispatches to, and the two stack helpers.  A Rust     *)
(* panic is modelled by the field `panic` that names the panic; a panicked *)
(* machine takes no further step.                                          *)
(***************************************************************************)
EXTENDS Integers, Sequences, FiniteSets, TLC

----------------------------------------------------------------------------
(* Program constants *)

REG_V0 == 0
REG_VF == 15
ADDRESS_BITS == 12
MAX_ADDRESS == (2 ^ ADDRESS_BITS) - 1
SIZE_OF_SPRITE == 5
MEMORY_SIZE == 4096
STACK_SIZE == 16
NUM_REGISTERS == 16
NUM_KEYS == 16
GRAPHICS_SIZE == 64 * 32
FONTSET_SIZE == 80
ENTRY == \H200

FONTSET ==
  << \HF0, \H90, \H90, \H90, \HF0,
     \H20, \H60, \H20, \H20, \H70,
     \HF0, \H10, \HF0, \H80, \HF0,
     \HF0, \H10, \HF0, \H10, \HF0,
     \H90, \H90, \HF0, \H10, \H10,
     \HF0, \H80, \HF0, \H10, \HF0,
     \HF0, \H80, \HF0, \H90, \HF0,
     \HF0, \H10, \H20, \H40, \H40,
     \HF0, \H90, \HF0, \H90, \HF0,
     \HF0, \H90, \HF0, \H10, \HF0,
     \HF0, \H90, \HF0, \H90, \H90,
     \HE0, \H90, \HE0, \H90, \HE0,
     \HF0, \H80, \H80, \H80, \HF0,
     \HE0, \H90, \H90, \H90, \HE0,
     \HF0, \H80, \HF0, \H80, \HF0,
     \HF0, \H80, \HF0, \H80, \H80 >>

----------------------------------------------------------------------------
(* Bit-level helpers: the macros and the u8/u16 operators the code uses *)

\* extract_bits!(num, shift, mask) for a mask of the form 2^k - 1
extract_bits(num, shift, mask) == (num \div (2 ^ shift)) % (mask + 1)

reg_x(opcode) == extract_bits(opcode, 8, \HF)

reg_y(opcode) == extract_bits(opcode, 4, \HF)

\* opcode & 0xF000, opcode & 0x0FFF, opcode & 0x00FF, opcode & 0x000F
TopNibble(opcode) == (opcode \div 4096) * 4096

LowNNN(opcode) == opcode % 4096

LowByte(opcode) == opcode % 256

LowNibble(opcode) == opcode % 16

BitOf(v, i) == (v \div (2 ^ i)) % 2

\* u8 | & ^ , bit by bit
BitOr(a, b) ==
  LET bit(i) == IF BitOf(a, i) = 1 \/ BitOf(b, i) = 1 THEN 2 ^ i ELSE 0
  IN  bit(0) + bit(1) + bit(2) + bit(3) + bit(4) + bit(5) + bit(6) + bit(7)

BitAnd(a, b) ==
  LET bit(i) == IF BitOf(a, i) = 1 /\ BitOf(b, i) = 1 THEN 2 ^ i ELSE 0
  IN  bit(0) + bit(1) + bit(2) + bit(3) + bit(4) + bit(5) + bit(6) + bit(7)

BitXor(a, b) ==
  LET bit(i) == IF BitOf(a, i) # BitOf(b, i) THEN 2 ^ i ELSE 0
  IN  bit(0) + bit(1) + bit(2) + bit(3) + bit(4) + bit(5) + bit(6) + bit(7)

\* u8::wrapping_add
wrapping_add8(a, b) == (a + b) % 256

\* u8::overflowing_add: <<wrapped result, overflowed>>
overflowing_add(a, b) == << (a + b) % 256, (a + b) > 255 >>

\* u8::overflowing_sub: <<wrapped result, overflowed (a borrow happened)>>
overflowing_sub(a, b) == << (a - b) % 256, a < b >>

\* the two bytes taken least significant first
from_le_bytes(hi, lo) == lo * 256 + hi

\* u16::from_be_bytes([hi, lo])
from_be_bytes(hi, lo) == hi * 256 + lo

----------------------------------------------------------------------------
(* The machine as a value: the fields of struct Chip8, and the panic *)

\* The two large byte arrays, memory ([u8; 4096]) and graphics ([u8; 64 * 32]),
\* are held by their nonzero elements: a function whose domain is the set of
\* indices with a nonzero byte.  Reading an index outside that set gives 0,
\* writing 0 takes the index out of it, so two arrays are equal exactly when
\* their functions are.  The arrays' lengths are checked where the code
\* indexes them.
ZeroedArray == [i \in {} |-> 0]

ArrayGet(array, i) == IF i \in DOMAIN array THEN array[i] ELSE 0

ArraySet(array, i, v) ==
  IF v # 0
    THEN (i :> v) @@ array
    ELSE IF i \in DOMAIN array
           THEN [j \in (DOMAIN array) \ {i} |-> array[j]]
           ELSE array

NO_PANIC == "none"

Panic(c, msg) == [c EXCEPT !.panic = msg]

Panicked(c) == c.panic # NO_PANIC

\* Chip8::new()
new ==
  [ registers   |-> [i \in 0 .. NUM_REGISTERS - 1 |-> 0],
    pc          |-> ENTRY,
    index       |-> 0,
    timer_delay |-> 0,
    timer_sound |-> 0,
    memory      |-> ZeroedArray,
    stack       |-> [i \in 0 .. STACK_SIZE - 1 |-> 0],
    sp          |-> 0,
    graphics    |-> ZeroedArray,
    keypad      |-> [k \in 0 .. NUM_KEYS - 1 |-> 0],
    panic       |-> NO_PANIC ]

\* memory after init's zeroing and its font loop
FontMemory ==
  [a \in {i \in 0 .. FONTSET_SIZE - 1 : FONTSET[i + 1] # 0} |-> FONTSET[a + 1]]

\* init's program loop from byte i (from 1) on: memory[i - 1 + pc] = program[i]
\* for every byte that has an address; the bytes past the end are not written
RECURSIVE LoadProgram(_, _, _)
LoadProgram(memory, program, i) ==
  IF i > Len(program) \/ ENTRY + i - 1 >= MEMORY_SIZE
    THEN memory
    ELSE LoadProgram(ArraySet(memory, ENTRY + i - 1, program[i]), program, i + 1)

\* Chip8::init(program): program is a sequence of bytes.  Everything is
\* zeroed, the font is copied, then the program byte by byte; a byte that
\* would land past the end of memory panics after the bytes before it landed
init(program) ==
  LET loaded == [new EXCEPT !.memory = LoadProgram(FontMemory, program, 1)]
  IN  IF ENTRY + Len(program) > MEMORY_SIZE
        THEN Panic(loaded, "index out of bounds")
        ELSE loaded

----------------------------------------------------------------------------
(* Stack helpers *)

\* the bounds check off by one
stack_push_OffByOne(c, address) ==
  IF c.sp > STACK_SIZE
    THEN Panic(c, "Stack overflow")
    ELSE [c EXCEPT !.stack[c.sp] = address, !.sp = c.sp + 1]

stack_push(c, address) ==
  IF c.sp >= STACK_SIZE
    THEN Panic(c, "Stack overflow")
    ELSE [c EXCEPT !.stack[c.sp] = address, !.sp = c.sp + 1]

\* no bounds check: an empty stack is popped as if it held slot 0
stack_pop_Unchecked(c) ==
  IF c.sp - 1 < 0
    THEN c
    ELSE [c EXCEPT !.sp = c.sp - 1]

\* stack_pop decrements sp (or panics); the popped value is then stack[sp]
stack_pop(c) ==
  IF c.sp - 1 < 0
    THEN Panic(c, "Stack underflow")
    ELSE [c EXCEPT !.sp = c.sp - 1]

----------------------------------------------------------------------------
(* Opcode handlers; each is entered with pc already advanced by 2 *)

\* a clear that leaves the display as it is
_opcode_00E0_KeepsDisplay(c) == c

_opcode_00E0(c) == [c EXCEPT !.graphics = ZeroedArray]

_opcode_00EE(c) ==
  LET c1 == stack_pop(c)
  IN  IF Panicked(c1) THEN c1 ELSE [c1 EXCEPT !.pc = c1.stack[c1.sp]]

\* the word calls the machine-code routine at NNN
_opcode_0NNN_Jumps(c, opcode) == [c EXCEPT !.pc = LowNNN(opcode)]

\* only prints a warning
_opcode_0NNN(c, opcode) == c

_opcode_1NNN(c, opcode) == [c EXCEPT !.pc = LowNNN(opcode)]

\* pushes the address of the call itself, not of the instruction after it
_opcode_2NNN_PushesCallAddress(c, opcode) ==
  LET c1 == stack_push(c, c.pc - 2)
  IN  IF Panicked(c1) THEN c1 ELSE [c1 EXCEPT !.pc = LowNNN(opcode)]

_opcode_2NNN(c, opcode) ==
  LET c1 == stack_push(c, c.pc)
  IN  IF Panicked(c1) THEN c1 ELSE [c1 EXCEPT !.pc = LowNNN(opcode)]

\* the skip advances pc by one byte
_opcode_3XNN_SkipsOneByte(c, opcode) ==
  IF c.registers[reg_x(opcode)] = LowByte(opcode)
    THEN [c EXCEPT !.pc = c.pc + 1]
    ELSE c

_opcode_3XNN(c, opcode) ==
  IF c.registers[reg_x(opcode)] = LowByte(opcode)
    THEN [c EXCEPT !.pc = c.pc + 2]
    ELSE c

_opcode_4XNN(c, opcode) ==
  IF c.registers[reg_x(opcode)] # LowByte(opcode)
    THEN [c EXCEPT !.pc = c.pc + 2]
    ELSE c

\* register X compared with itself
_opcode_5XY0_SameRegister(c, opcode) ==
  IF c.registers[reg_x(opcode)] = c.registers[reg_x(opcode)]
    THEN [c EXCEPT !.pc = c.pc + 2]
    ELSE c

_opcode_5XY0(c, opcode) ==
  IF c.registers[reg_x(opcode)] = c.registers[reg_y(opcode)]
    THEN [c EXCEPT !.pc = c.pc + 2]
    ELSE c

_opcode_6XNN(c, opcode) ==
  [c EXCEPT !.registers[reg_x(opcode)] = LowByte(opcode)]

_opcode_7XNN(c, opcode) ==
  [c EXCEPT !.registers[reg_x(opcode)] =
              wrapping_add8(c.registers[reg_x(opcode)], LowByte(opcode))]

_opcode_8XY0(c, opcode) ==
  [c EXCEPT !.registers[reg_x(opcode)] = c.registers[reg_y(opcode)]]

_opcode_8XY1(c, opcode) ==
  [c EXCEPT !.registers[reg_x(opcode)] =
              BitOr(c.registers[reg_x(opcode)], c.registers[reg_y(opcode)])]

_opcode_8XY2(c, opcode) ==
  [c EXCEPT !.registers[reg_x(opcode)] =
              BitAnd(c.registers[reg_x(opcode)], c.registers[reg_y(opcode)])]

_opcode_8XY3(c, opcode) ==
  [c EXCEPT !.registers[reg_x(opcode)] =
              BitXor(c.registers[reg_x(opcode)], c.registers[reg_y(opcode)])]

\* the flag written before the result, as the shift handlers do
_opcode_8XY4_FlagFirst(c, opcode) ==
  LET r  == overflowing_add(c.registers[reg_x(opcode)], c.registers[reg_y(opcode)])
      c1 == [c EXCEPT !.registers[REG_VF] = IF r[2] THEN 1 ELSE 0]
  IN  [c1 EXCEPT !.registers[reg_x(opcode)] = r[1]]

\* registers[X] = result; then registers[VF] = carry
_opcode_8XY4(c, opcode) ==
  LET r  == overflowing_add(c.registers[reg_x(opcode)], c.registers[reg_y(opcode)])
      c1 == [c EXCEPT !.registers[reg_x(opcode)] = r[1]]
  IN  [c1 EXCEPT !.registers[REG_VF] = IF r[2] THEN 1 ELSE 0]

\* registers[X] = result; then registers[VF] = borrow
_opcode_8XY5(c, opcode) ==
  LET r  == overflowing_sub(c.registers[reg_x(opcode)], c.registers[reg_y(opcode)])
      c1 == [c EXCEPT !.registers[reg_x(opcode)] = r[1]]
  IN  [c1 EXCEPT !.registers[REG_VF] = IF r[2] THEN 1 ELSE 0]

\* registers[VF] = bit 0 of registers[Y]; then registers[X] = registers[Y] >> 1
_opcode_8XY6(c, opcode) ==
  LET c1 == [c EXCEPT !.registers[REG_VF] =
                        extract_bits(c.registers[reg_y(opcode)], 0, 1)]
  IN  [c1 EXCEPT !.registers[reg_x(opcode)] = c1.registers[reg_y(opcode)] \div 2]

\* registers[X] = registers[Y] - registers[X]; then registers[VF] = borrow
_opcode_8XY7(c, opcode) ==
  LET r  == overflowing_sub(c.registers[reg_y(opcode)], c.registers[reg_x(opcode)])
      c1 == [c EXCEPT !.registers[reg_x(opcode)] = r[1]]
  IN  [c1 EXCEPT !.registers[REG_VF] = IF r[2] THEN 1 ELSE 0]

\* registers[VF] = bit 7 of registers[Y]; then registers[X] = registers[Y] << 1
_opcode_8XYE(c, opcode) ==
  LET c1 == [c EXCEPT !.registers[REG_VF] =
                        extract_bits(c.registers[reg_y(opcode)], 7, 1)]
  IN  [c1 EXCEPT !.registers[reg_x(opcode)] =
                   (c1.registers[reg_y(opcode)] * 2) % 256]

\* defined by the source, reached by no arm of emulateCycle
_opcode_9XY0(c, opcode) ==
  IF c.registers[reg_x(opcode)] # c.registers[reg_y(opcode)]
    THEN [c EXCEPT !.pc = c.pc + 2]
    ELSE c

_opcode_ANNN(c, opcode) == [c EXCEPT !.index = extract_bits(opcode, 0, \HFFF)]

\* the sum cut to 12 bits, with no check
_opcode_BNNN_Wraps(c, opcode) ==
  [c EXCEPT !.pc = (extract_bits(opcode, 0, \HFFF) + c.registers[0]) % (MAX_ADDRESS + 1)]

\* checked_add on u16 cannot overflow here (address <= 0xFFF, V0 <= 0xFF)
_opcode_BNNN(c, opcode) ==
  LET sum == extract_bits(opcode, 0, \HFFF) + c.registers[0]
  IN  IF sum <= MAX_ADDRESS
        THEN [c EXCEPT !.pc = sum]
        ELSE Panic(c, "SEGFAULT")

\* defined by the source, reached by no arm of emulateCycle;
\* random_number is the byte the generator returns
_opcode_CXNN(c, opcode, random_number) ==
  [c EXCEPT !.registers[reg_x(opcode)] =
              BitAnd(random_number, extract_bits(opcode, 0, \HFF))]

\* unimplemented!()
_opcode_DXYN(c, opcode) == Panic(c, "not implemented")

_opcode_EX9E(c, opcode) ==
  LET value == c.registers[reg_x(opcode)]
  IN  IF value >= NUM_KEYS THEN Panic(c, "index out of bounds")
      ELSE IF c.keypad[value] = 1 THEN [c EXCEPT !.pc = c.pc + 2]
      ELSE c

_opcode_EXA1(c, opcode) ==
  LET value == c.registers[reg_x(opcode)]
  IN  IF value >= NUM_KEYS THEN Panic(c, "index out of bounds")
      ELSE IF c.keypad[value] = 0 THEN [c EXCEPT !.pc = c.pc + 2]
      ELSE c

_opcode_FX07(c, opcode) ==
  [c EXCEPT !.registers[reg_x(opcode)] = c.timer_delay]

\* pc is not put back when no key is pressed
_opcode_FX0A_NoRetry(c, opcode) ==
  LET found == {k \in 0 .. NUM_KEYS - 1 : c.keypad[k] = 1}
  IN  IF found # {}
        THEN LET first == CHOOSE k \in found : \A j \in found : k <= j
                 key   == c.keypad[first]
             IN  [c EXCEPT !.registers[reg_x(opcode)] = key]
        ELSE c

\* keypad.iter().find(|k| k == 1) yields the first ELEMENT equal to 1, and
\* that element is what is stored; with no such element pc is put back
_opcode_FX0A(c, opcode) ==
  LET found == {k \in 0 .. NUM_KEYS - 1 : c.keypad[k] = 1}
  IN  IF found # {}
        THEN LET first == CHOOSE k \in found : \A j \in found : k <= j
                 key   == c.keypad[first]
             IN  [c EXCEPT !.registers[reg_x(opcode)] = key]
        ELSE [c EXCEPT !.pc = c.pc - 2]

\* the value goes to both timers
_opcode_FX18_BothTimers(c, opcode) ==
  [c EXCEPT !.timer_sound = c.registers[reg_x(opcode)],
            !.timer_delay = c.registers[reg_x(opcode)]]

_opcode_FX18(c, opcode) ==
  [c EXCEPT !.timer_sound = c.registers[reg_x(opcode)]]

\* u16::wrapping_add
_opcode_FX1E(c, opcode) ==
  [c EXCEPT !.index = (c.index + c.registers[reg_x(opcode)]) % 65536]

_opcode_FX29(c, opcode) ==
  [c EXCEPT !.index = c.registers[reg_x(opcode)] * SIZE_OF_SPRITE]

\* the bounds check, then unimplemented!() in the first round of the loop
_opcode_FX33(c, opcode) ==
  IF c.index > MAX_ADDRESS - 2
    THEN Panic(c, "FX33 out-of-bound")
    ELSE Panic(c, "not implemented")

\* unimplemented!(); reached by no arm of emulateCycle
_opcode_FX65(c, opcode) == Panic(c, "not implemented")

----------------------------------------------------------------------------
(* One CPU cycle *)

Dispatch8(c, opcode) ==
  LET k == LowNibble(opcode)
  IN  CASE k = 0  -> _opcode_8XY0(c, opcode)
        [] k = 1  -> _opcode_8XY1(c, opcode)
        [] k = 2  -> _opcode_8XY2(c, opcode)
        [] k = 3  -> _opcode_8XY3(c, opcode)
        [] k = 4  -> _opcode_8XY4(c, opcode)
        [] k = 5  -> _opcode_8XY5(c, opcode)
        [] k = 6  -> _opcode_8XY6(c, opcode)
        [] k = 7  -> _opcode_8XY7(c, opcode)
        [] k = 14 -> _opcode_8XYE(c, opcode)
        [] OTHER  -> Panic(c, "Unknown opcode")

DispatchE(c, opcode) ==
  LET k == LowByte(opcode)
  IN  CASE k = \H9E -> _opcode_EX9E(c, opcode)
        [] k = \HA1 -> _opcode_EXA1(c, opcode)
        [] OTHER    -> Panic(c, "Unknown opcode")

\* a dispatch that skips a word with no arm
DispatchF_SkipsUnknown(c, opcode) ==
  LET k == LowByte(opcode)
  IN  CASE k = \H07 -> _opcode_FX07(c, opcode)
        [] k = \H0A -> _opcode_FX0A(c, opcode)
        [] k = \H15 -> _opcode_FX0A(c, opcode)
        [] k = \H18 -> _opcode_FX18(c, opcode)
        [] k = \H1E -> _opcode_FX1E(c, opcode)
        [] k = \H29 -> _opcode_FX29(c, opcode)
        [] k = \H33 -> _opcode_FX33(c, opcode)
        [] OTHER    -> c

\* 0x15 is dispatched to _opcode_FX0A, and 0x65 to an empty arm
DispatchF(c, opcode) ==
  LET k == LowByte(opcode)
  IN  CASE k = \H07 -> _opcode_FX07(c, opcode)
        [] k = \H0A -> _opcode_FX0A(c, opcode)
        [] k = \H15 -> _opcode_FX0A(c, opcode)
        [] k = \H18 -> _opcode_FX18(c, opcode)
        [] k = \H1E -> _opcode_FX1E(c, opcode)
        [] k = \H29 -> _opcode_FX29(c, opcode)
        [] k = \H33 -> _opcode_FX33(c, opcode)
        [] k = \H65 -> c
        [] OTHER    -> Panic(c, "Unknown opcode")

Dispatch(c, opcode) ==
  LET t == TopNibble(opcode)
  IN  CASE t = \H0000 -> (CASE opcode = \H00E0 -> _opcode_00E0(c)
                            [] opcode = \H00EE -> _opcode_00EE(c)
                            [] OTHER           -> _opcode_0NNN(c, opcode))
        [] t = \H1000 -> _opcode_1NNN(c, opcode)
        [] t = \H2000 -> _opcode_2NNN(c, opcode)
        [] t = \H3000 -> _opcode_3XNN(c, opcode)
        [] t = \H4000 -> _opcode_4XNN(c, opcode)
        [] t = \H5000 -> _opcode_5XY0(c, opcode)
        [] t = \H6000 -> _opcode_6XNN(c, opcode)
        [] t = \H7000 -> _opcode_7XNN(c, opcode)
        [] t = \H8000 -> Dispatch8(c, opcode)
        [] t = \HA000 -> _opcode_ANNN(c, opcode)
        [] t = \HB000 -> _opcode_BNNN(c, opcode)
        [] t = \HD000 -> _opcode_DXYN(c, opcode)
        [] t = \HE000 -> DispatchE(c, opcode)
        [] t = \HF000 -> DispatchF(c, opcode)
        [] OTHER      -> Panic(c, "Unknown opcode")

\* the word at address a, most significant byte first
Fetch(memory, a) == from_be_bytes(ArrayGet(memory, a), ArrayGet(memory, a + 1))

emulateCycle(c) ==
  IF c.pc + 1 >= MEMORY_SIZE
    THEN Panic(c, "index out of bounds")
    ELSE Dispatch([c EXCEPT !.pc = c.pc + 2], Fetch(c.memory, c.pc))

----------------------------------------------------------------------------
(* The inputs: program images and key events *)

\* registers the generated programs operate on: 0 .. NumLowRegs - 1 and VF
NumLowRegs == 2

\* keys the input collaborator presses and releases: 0 .. NumHostKeys - 1
NumHostKeys == 2

TestRegs == (0 .. NumLowRegs - 1) \cup {REG_VF}

\* register values the generated programs load: both ends, both shifted-out
\* bits, and pairs with and without carry and borrow
TestVals == {0, 1, 10, 250, 255}

Op(n1, x, y, n) == n1 * 4096 + x * 256 + y * 16 + n

OpXNN(n1, x, nn) == n1 * 4096 + x * 256 + nn

OpNNN(n1, nnn) == n1 * 4096 + nnn

\* the address of the i-th word (from 1) of a program image
AddrOf(i) == ENTRY + 2 * (i - 1)

\* a jump to itself, placed as the i-th word
Halt(i) == OpNNN(1, AddrOf(i))

\* a program as bytes, most significant byte of each word first
RECURSIVE Image(_)
Image(words) ==
  IF words = <<>>
    THEN <<>>
    ELSE <<Head(words) \div 256, Head(words) % 256>> \o Image(Tail(words))

\* instructions of two register operands
TwoRegOps(x, y) ==
  {Op(8, x, y, k) : k \in (0 .. 8) \cup {14}}
    \cup {Op(5, x, y, 0), Op(9, x, y, 0), Op(13, x, y, 1)}

\* instructions of a register and an immediate byte
RegImmOps(x, nn) ==
  {OpXNN(3, x, nn), OpXNN(4, x, nn), OpXNN(7, x, nn), OpXNN(12, x, nn)}

\* instructions of one register operand
OneRegOps(x) ==
  {OpXNN(15, x, k) : k \in {\H07, \H0A, \H15, \H18, \H1E, \H29, \H33,
                            \H55, \H65, \HFF}}
    \cup {OpXNN(14, x, k) : k \in {\H9E, \HA1, \H00}}

\* each program loads its operand registers, executes one instruction and
\* ends in jumps to themselves (two, for an instruction that may skip one)
TwoRegPrograms ==
  UNION {{<<OpXNN(6, x, a), OpXNN(6, y, b), op, Halt(4), Halt(5)>> :
            op \in TwoRegOps(x, y)} :
         <<x, y, a, b>> \in TestRegs \X TestRegs \X TestVals \X TestVals}

RegImmPrograms ==
  UNION {{<<OpXNN(6, x, a), op, Halt(3), Halt(4)>> : op \in RegImmOps(x, nn)} :
         <<x, a, nn>> \in TestRegs \X TestVals \X TestVals}

OneRegPrograms ==
  UNION {{<<OpXNN(6, x, a), op, Halt(3), Halt(4)>> : op \in OneRegOps(x)} :
         <<x, a>> \in TestRegs \X TestVals}

\* programs of calls, returns and jumps
ControlPrograms ==
  { <<\H6005>>,                                       \* store 5 in V0
    <<\H2200>>,                                       \* a call of itself
    <<\H00EE>>,                                       \* a return with no call
    <<\H2204, \H00EE, \H00EE>>,                       \* call, return, return
    <<\H2206, \H2206, \H1204, \H220A, \H00EE, \H6105, \H00EE>>,  \* nested calls
    <<\H00E0, \H0123, \H1FFC>>,                       \* clear, 0NNN, run off the end
    <<\H60FF, \HBF01>>, <<\H6002, \HB202, \H1204>>,    \* jumps with offset
    <<\H60FF, \HBF00>>, <<\H6001, \HBFFF>>,          \* ... to 0xFFF and past it
    <<\HA123, \H1200>>,
    <<\H812F>>, <<\HE1FF>>, <<\HF100>>,               \* words with no handler
    <<\H600A, \HF015, \HF107, \H1206>>,              \* set the delay timer, read it
    <<\HA300, \H60FA, \HF033>>, <<\HAFFE, \H60FA, \HF033>>,   \* decimal digits
    <<\HA300, \H610A, \HF155, \HF165>>,              \* store registers, load them
    <<\HA000, \H6000, \H6100, \HD015>>,
    <<\H1203, \H0012, \H0300>>,                      \* a jump to an odd address
    <<\H2203, \H0000, \HEE00>> }                     \* a call of an odd address             \* draw the glyph of 0

Programs ==
  {Image(w) : w \in TwoRegPrograms \cup RegImmPrograms \cup OneRegPrograms
                     \cup ControlPrograms}

\* images a reset may load into a machine that has already run
ResetImages ==
  {Image(<<\H6005>>), Image(<<\H2204, \H00EE, \H00EE>>), Image(<<\H6105, \H1202>>)}

----------------------------------------------------------------------------
(* The state machine *)

VARIABLES registers, pc, index, timer_delay, timer_sound, memory, stack, sp,
          graphics, keypad, panic

vars == <<registers, pc, index, timer_delay, timer_sound, memory, stack, sp,
          graphics, keypad, panic>>

\* the machine's current state as a value
Chip ==
  [ registers   |-> registers,
    pc          |-> pc,
    index       |-> index,
    timer_delay |-> timer_delay,
    timer_sound |-> timer_sound,
    memory      |-> memory,
    stack       |-> stack,
    sp          |-> sp,
    graphics    |-> graphics,
    keypad      |-> keypad,
    panic       |-> panic ]

\* the next state is the value c
Becomes(c) ==
  /\ registers' = c.registers
  /\ pc' = c.pc
  /\ index' = c.index
  /\ timer_delay' = c.timer_delay
  /\ timer_sound' = c.timer_sound
  /\ memory' = c.memory
  /\ stack' = c.stack
  /\ sp' = c.sp
  /\ graphics' = c.graphics
  /\ keypad' = c.keypad
  /\ panic' = c.panic

\* a machine is constructed and a program loaded into it
Init ==
  \E image \in Programs :
    LET c == init(image)
    IN  /\ registers = c.registers
        /\ pc = c.pc
        /\ index = c.index
        /\ timer_delay = c.timer_delay
        /\ timer_sound = c.timer_sound
        /\ memory = c.memory
        /\ stack = c.stack
        /\ sp = c.sp
        /\ graphics = c.graphics
        /\ keypad = c.keypad
        /\ panic = c.panic

\* one call of emulateCycle; none after a panic
Step ==
  /\ panic = NO_PANIC
  /\ Becomes(emulateCycle(Chip))

\* a reset that leaves the keys as they are
Reset_KeepsKeypad ==
  \E image \in ResetImages :
    LET c == init(image)
    IN  /\ registers' = c.registers
        /\ pc' = c.pc
        /\ index' = c.index
        /\ timer_delay' = c.timer_delay
        /\ timer_sound' = c.timer_sound
        /\ memory' = c.memory
        /\ stack' = c.stack
        /\ sp' = c.sp
        /\ graphics' = c.graphics
        /\ keypad' = keypad
        /\ panic' = c.panic

\* a call of init on a machine in any state
Reset ==
  \E image \in ResetImages :
    LET c == init(image)
    IN  /\ registers' = c.registers
        /\ pc' = c.pc
        /\ index' = c.index
        /\ timer_delay' = c.timer_delay
        /\ timer_sound' = c.timer_sound
        /\ memory' = c.memory
        /\ stack' = c.stack
        /\ sp' = c.sp
        /\ graphics' = c.graphics
        /\ keypad' = c.keypad
        /\ panic' = c.panic

\* the input collaborator writes one key's flag
SetKey ==
  /\ panic = NO_PANIC
  /\ \E k \in 0 .. NumHostKeys - 1, v \in 0 .. 1 :
       /\ keypad[k] # v
       /\ keypad' = [keypad EXCEPT ![k] = v]
  /\ UNCHANGED <<registers, pc, index, timer_delay, timer_sound, memory,
                 stack, sp, graphics, panic>>

Next == Step \/ Reset \/ SetKey

Spec == Init /\ [][Next]_vars

----------------------------------------------------------------------------
(* The instruction the next step executes *)

CanFetch == panic = NO_PANIC /\ pc + 1 < MEMORY_SIZE

Word == Fetch(memory, pc)

X == reg_x(Word)

Y == reg_y(Word)

NN == LowByte(Word)

NNN == LowNNN(Word)

IsCall == CanFetch /\ TopNibble(Word) = \H2000

IsReturn == CanFetch /\ Word = \H00EE

----------------------------------------------------------------------------
(* Calls and returns *)

\* C1: a call executed at address a with stack pointer d stores a + 2 in
\* slot d, sets the stack pointer to d + 1 and pc to NNN; a return executed
\* with stack pointer d + 1 sets pc to the content of slot d and the stack
\* pointer to d; and between the two, no step of the machine and no key
\* event changes a slot below the stack pointer, nor lowers the stack
\* pointer other than by a return, one slot at a time.  So slot d still
\* holds a + 2 at the first later return executed with stack pointer d + 1,
\* whatever ran in between.
CallReturnDiscipline ==
  [][ (Step \/ SetKey) =>
        /\ (Step /\ IsCall /\ sp < STACK_SIZE) =>
              /\ stack' = [stack EXCEPT ![sp] = pc + 2]
              /\ sp' = sp + 1
              /\ pc' = NNN
              /\ panic' = NO_PANIC
        /\ (Step /\ IsReturn /\ sp > 0) =>
              /\ pc' = stack[sp - 1]
              /\ sp' = sp - 1
              /\ stack' = stack
              /\ panic' = NO_PANIC
        /\ \A i \in 0 .. STACK_SIZE - 1 : (i < sp /\ i < sp') => stack'[i] = stack[i]
        /\ sp' \in {sp - 1, sp, sp + 1}
        /\ (sp' = sp - 1) => (Step /\ IsReturn)
        /\ (sp' = sp + 1) => (Step /\ IsCall)
    ]_vars

\* a return from a nested call has just brought pc back behind the call:
\* depth 1, pc the content of the slot just popped, a call right before pc
ReturnedFromNestedCall ==
  /\ panic = NO_PANIC
  /\ sp = 1
  /\ stack[0] # 0
  /\ pc = stack[sp]
  /\ TopNibble(Fetch(memory, pc - 2)) = \H2000

\* C2: a call executed with the stack pointer at the capacity 16 panics with
\* a stack overflow, leaves pc where the fetch put it (2 past the call; NNN
\* is not assigned to it), writes no stack slot and keeps the stack pointer; and the stack
\* pointer is at most 16 in every state.
OverflowIsFatal ==
  [][ /\ sp <= STACK_SIZE
      /\ sp' <= STACK_SIZE
      /\ (Step /\ IsCall /\ sp = STACK_SIZE) =>
            /\ panic' = "Stack overflow"
            /\ pc' = pc + 2
            /\ stack' = stack
            /\ sp' = sp
    ]_vars

\* a call has overflowed the full stack
Overflowed == panic = "Stack overflow" /\ sp = STACK_SIZE

\* C3: a return executed with the stack pointer 0 panics with a stack
\* underflow; pc stays where the fetch put it (no stack slot is read into
\* it), and the stack pointer and the stack are unchanged; the stack pointer
\* is never below 0.
UnderflowIsFatal ==
  [][ /\ sp >= 0
      /\ sp' >= 0
      /\ (Step /\ IsReturn /\ sp = 0) =>
            /\ panic' = "Stack underflow"
            /\ pc' = pc + 2
            /\ stack' = stack
            /\ sp' = 0
    ]_vars

\* a return has underflowed the empty stack, after a balanced call and return
Underflowed == panic = "Stack underflow" /\ sp = 0 /\ stack[0] # 0

----------------------------------------------------------------------------
(* Arithmetic *)

Is8XY(k) == CanFetch /\ TopNibble(Word) = \H8000 /\ LowNibble(Word) = k

\* C4 as stated: after 8XY4, VF is 1 if x + y >= 256 and 0 otherwise, and
\* register X holds (x + y) mod 256, for every X and Y in 0 .. 15.
AddWithCarryEveryX ==
  [][ (Step /\ Is8XY(4)) =>
        /\ registers'[REG_VF] = (IF registers[X] + registers[Y] >= 256 THEN 1 ELSE 0)
        /\ registers'[X] = (registers[X] + registers[Y]) % 256
    ]_vars

\* C4 as amended: after 8XY4, VF is 1 if x + y >= 256 and 0 otherwise, for
\* every X and Y; register X holds (x + y) mod 256 when X is not 15 (when X
\* is 15, the register is the flags register and holds the carry flag).
AddWithCarry ==
  [][ (Step /\ Is8XY(4)) =>
        /\ registers'[REG_VF] = (IF registers[X] + registers[Y] >= 256 THEN 1 ELSE 0)
        /\ (X # REG_VF) => registers'[X] = (registers[X] + registers[Y]) % 256
    ]_vars

\* 250 + 10 has just been added in V0: V0 is 4 and VF is 1
AddedWithCarry ==
  /\ panic = NO_PANIC
  /\ pc = AddrOf(4)
  /\ Fetch(memory, AddrOf(1)) = \H60FA
  /\ Fetch(memory, AddrOf(2)) = \H610A
  /\ Fetch(memory, AddrOf(3)) = \H8014
  /\ registers[0] = 4
  /\ registers[1] = 10
  /\ registers[REG_VF] = 1

\* C5: after 8XY5 (VX - VY) and after 8XY7 (VY - VX), VF is 1 exactly when
\* the minuend is >= the subtrahend (no borrow) and 0 otherwise, and
\* register X holds (minuend - subtrahend) mod 256 (read, for X = 15, with
\* the flag as the value the flags register keeps).
SubtractFlagIsNoBorrow ==
  [][ (Step /\ (Is8XY(5) \/ Is8XY(7))) =>
        LET minuend    == IF Is8XY(5) THEN registers[X] ELSE registers[Y]
            subtrahend == IF Is8XY(5) THEN registers[Y] ELSE registers[X]
        IN  /\ registers'[REG_VF] = (IF minuend >= subtrahend THEN 1 ELSE 0)
            /\ (X # REG_VF) => registers'[X] = (minuend - subtrahend) % 256
    ]_vars

\* C6: after 8XY6, VF is bit 0 of the value register Y held before the
\* step, and after 8XYE, VF is bit 7 of it, for every X and Y in 0 .. 15.
ShiftFlagIsShiftedOutBit ==
  [][ /\ (Step /\ Is8XY(6))  => registers'[REG_VF] = BitOf(registers[Y], 0)
      /\ (Step /\ Is8XY(14)) => registers'[REG_VF] = BitOf(registers[Y], 7)
    ]_vars

----------------------------------------------------------------------------
(* The blocking key wait *)

IsKeyWait == CanFetch /\ TopNibble(Word) = \HF000 /\ LowByte(Word) = \H0A

PressedKeys == {k \in 0 .. NUM_KEYS - 1 : keypad[k] = 1}

\* C7: with the key wait FX0A at pc and no keypad flag equal to 1, a step
\* leaves pc and every other field of the machine as they were.
KeyWaitBlocks ==
  (IsKeyWait /\ PressedKeys = {}) => emulateCycle(Chip) = Chip

\* the machine waits at a key wait it has run up to, every key released
WaitingForKey ==
  /\ IsKeyWait
  /\ PressedKeys = {}
  /\ pc = AddrOf(2)
  /\ registers[X] = 250

\* C8: a step executing the key wait FX0A with some keypad flag equal to 1
\* stores in register X the index of a pressed key, and pc ends 2 past the
\* instruction.
KeyWaitStoresKeyIndex ==
  [][ (Step /\ IsKeyWait /\ PressedKeys # {}) =>
        /\ registers'[X] \in PressedKeys
        /\ pc' = pc + 2
    ]_vars

----------------------------------------------------------------------------
(* Conditional skips *)

IsSkip ==
  /\ CanFetch
  /\ \/ TopNibble(Word) \in {\H3000, \H4000}
     \/ TopNibble(Word) = \H5000 /\ LowNibble(Word) = 0

SkipCondition ==
  CASE TopNibble(Word) = \H3000 -> registers[X] = NN
    [] TopNibble(Word) = \H4000 -> registers[X] # NN
    [] TopNibble(Word) = \H5000 -> registers[X] = registers[Y]

----------------------------------------------------------------------------
(* Dispatch *)

\* the instruction words the specification defines
DefinedInstruction(w) ==
  LET t == TopNibble(w) \div 4096
  IN  \/ t \in {0, 1, 2, 3, 4, 6, 7, 10, 11, 12, 13}
      \/ t \in {5, 9} /\ LowNibble(w) = 0
      \/ t = 8 /\ LowNibble(w) \in (0 .. 7) \cup {14}
      \/ t = 14 /\ LowByte(w) \in {\H9E, \HA1}
      \/ t = 15 /\ LowByte(w) \in {\H07, \H0A, \H15, \H18, \H1E, \H29, \H33,
                                    \H55, \H65}

\* C10: a step ends in the unknown-instruction panic only for a word that
\* is no defined instruction (the word is the one before pc: the panic comes
\* after the fetch has advanced pc).
UnknownOnlyForUndefined ==
  (panic = "Unknown opcode") => ~DefinedInstruction(Fetch(memory, pc - 2))

----------------------------------------------------------------------------
(* Words without a handler *)

\* a word of the 0x8, 0xE or 0xF family whose second-level key is none the
\* specification defines (every top-level key 0x0 .. 0xF is defined)
UndefinedSecondLevelKey(w) ==
  /\ TopNibble(w) \in {\H8000, \HE000, \HF000}
  /\ ~DefinedInstruction(w)

\* C11: a step on a word with an undefined second-level key in the 0x8,
\* 0xE or 0xF family ends in the unknown-instruction panic, with pc left at
\* the fetch's advance and no other field changed: it is neither skipped
\* as a no-op nor run as another instruction.
UnknownIsFatal ==
  [][ (Step /\ CanFetch /\ UndefinedSecondLevelKey(Word)) =>
        /\ panic' = "Unknown opcode"
        /\ pc' = pc + 2
        /\ UNCHANGED <<registers, index, timer_delay, timer_sound, memory,
                       stack, sp, graphics, keypad>>
    ]_vars

\* FXFF has just ended in the unknown-instruction panic
UnknownKeyPanicked ==
  /\ panic = "Unknown opcode"
  /\ TopNibble(Fetch(memory, pc - 2)) = \HF000
  /\ LowByte(Fetch(memory, pc - 2)) = \HFF

----------------------------------------------------------------------------
(* Timers *)

IsF(k) == CanFetch /\ TopNibble(Word) = \HF000 /\ LowByte(Word) = k

\* C12: FX15 sets the delay timer to VX, FX18 the sound timer to VX, FX07
\* sets VX to the delay timer; each leaves pc two further and changes
\* nothing else (so FX15 followed by FX07 reads back the value written).
TimersAreCopies ==
  [][ /\ (Step /\ IsF(\H15)) =>
            /\ timer_delay' = registers[X]
            /\ pc' = pc + 2
            /\ UNCHANGED <<registers, index, timer_sound, memory, stack, sp,
                           graphics, keypad, panic>>
      /\ (Step /\ IsF(\H18)) =>
            /\ timer_sound' = registers[X]
            /\ pc' = pc + 2
            /\ UNCHANGED <<registers, index, timer_delay, memory, stack, sp,
                           graphics, keypad, panic>>
      /\ (Step /\ IsF(\H07)) =>
            /\ registers' = [registers EXCEPT ![X] = timer_delay]
            /\ pc' = pc + 2
            /\ UNCHANGED <<index, timer_delay, timer_sound, memory, stack, sp,
                           graphics, keypad, panic>>
    ]_vars

----------------------------------------------------------------------------
(* Fetch, and load immediate *)

\* C13: a step takes the byte at pc as the high byte of the instruction
\* word and the byte at pc + 1 as the low byte, and pc is two further
\* before the instruction acts.  When the high nibble of the byte at pc is
\* 6, the register numbered by its low nibble gets the byte at pc + 1, pc
\* ends two further, and nothing else changes.
FetchAndLoadImmediate ==
  [][ (Step /\ CanFetch /\ ArrayGet(memory, pc) \div 16 = 6) =>
        /\ registers' = [registers EXCEPT
                           ![ArrayGet(memory, pc) % 16] = ArrayGet(memory, pc + 1)]
        /\ pc' = pc + 2
        /\ UNCHANGED <<index, timer_delay, timer_sound, memory, stack, sp,
                       graphics, keypad, panic>>
    ]_vars

\* the bytes 0x60 0x05 at 0x200 have just been run from the reset state
LoadedFiveIntoV0 ==
  /\ ArrayGet(memory, ENTRY) = \H60
  /\ ArrayGet(memory, ENTRY + 1) = \H05
  /\ pc = \H202
  /\ registers = [[i \in 0 .. NUM_REGISTERS - 1 |-> 0] EXCEPT ![0] = 5]
  /\ panic = NO_PANIC

----------------------------------------------------------------------------
(* The 0NNN family *)

\* C14: a step on a word with top nibble 0 other than 00E0 and 00EE only
\* advances pc by 2: registers, index, timers, memory, stack, stack
\* pointer, display and keypad are unchanged and there is no panic.
MachineRoutineIsNoOp ==
  [][ (Step /\ CanFetch /\ TopNibble(Word) = \H0000
            /\ Word \notin {\H00E0, \H00EE}) =>
        /\ pc' = pc + 2
        /\ UNCHANGED <<registers, index, timer_delay, timer_sound, memory,
                       stack, sp, graphics, keypad, panic>>
    ]_vars

\* the word 0123 has just been stepped over
SteppedOverMachineRoutine ==
  /\ panic = NO_PANIC
  /\ pc >= ENTRY + 2
  /\ Fetch(memory, pc - 2) = \H0123

----------------------------------------------------------------------------
(* Clear screen *)

\* display contents a machine is given before it runs: every cell lit, as
\* the source's own test of 00E0 does, and the displays with some of a few
\* cells lit (none of them: the cleared display)
DisplayCells == {0, 63, 64, GRAPHICS_SIZE - 1}

TestDisplays ==
  {[i \in 0 .. GRAPHICS_SIZE - 1 |-> 1]}
    \cup {[i \in lit |-> 1] : lit \in SUBSET DisplayCells}

\* programs that clear the screen once, twice, and around other instructions
DisplayPrograms ==
  { <<\H00E0, \H00E0, \H1204>>,
    <<\H00E0, \H6005, \HA123, \H0123, \H00E0, \H120A>>,
    <<\H61FF, \H00E0, \H1204>>,
    <<\H2204, \H1202, \H00E0, \H00EE>>,
    <<\H600A, \HF018, \HF107, \HF01E, \HF029, \HE1A1, \HE19E, \H8014,
      \H3000, \H4000, \H5010, \H7001, \H121A, \HF10A, \HF015, \H00E0, \H1220>> }

\* a machine is constructed, a program loaded, and its display filled
InitDisplay ==
  \E image \in DisplayPrograms, display \in TestDisplays :
    LET c == [init(Image(image)) EXCEPT !.graphics = display]
    IN  /\ registers = c.registers
        /\ pc = c.pc
        /\ index = c.index
        /\ timer_delay = c.timer_delay
        /\ timer_sound = c.timer_sound
        /\ memory = c.memory
        /\ stack = c.stack
        /\ sp = c.sp
        /\ graphics = c.graphics
        /\ keypad = c.keypad
        /\ panic = c.panic

SpecDisplay == InitDisplay /\ [][Next]_vars

\* every cell reads 0 (a cell the array does not list reads 0)
AllCellsOff(display) ==
  \A i \in DOMAIN display : ArrayGet(display, i) = 0

\* C15: a step on 00E0, whatever the display holds, leaves each of the
\* 64 x 32 cells 0 and pc two further and changes nothing else; a display
\* with all cells 0 stays so over every step that is not a draw, so a
\* second 00E0, directly or after other instructions, again changes only pc.
ClearScreenClears ==
  [][ /\ (Step /\ CanFetch /\ Word = \H00E0) =>
            /\ AllCellsOff(graphics')
            /\ pc' = pc + 2
            /\ UNCHANGED <<registers, index, timer_delay, timer_sound, memory,
                           stack, sp, keypad, panic>>
      /\ (Step /\ CanFetch /\ TopNibble(Word) # \HD000 /\ AllCellsOff(graphics)) =>
            graphics' = graphics
    ]_vars

\* a display with lit cells has been cleared, and cleared a second time
\* after other instructions
ClearedTwice ==
  /\ panic = NO_PANIC
  /\ pc = AddrOf(6)
  /\ Fetch(memory, AddrOf(1)) = \H00E0
  /\ Fetch(memory, AddrOf(5)) = \H00E0
  /\ AllCellsOff(graphics)

----------------------------------------------------------------------------
(* Draw sprite *)

DISPLAY_WIDTH == 64

DISPLAY_HEIGHT == 32

IsDraw == CanFetch /\ TopNibble(Word) = \HD000

\* the sprite's pixel for the display cell at column col, row row: bit 7 of
\* the byte at index + r is the leftmost pixel of sprite row r, the sprite's
\* corner is at column VX, row VY, and coordinates wrap around the grid
SpritePixel(col, row) ==
  LET dc == (col - registers[X]) % DISPLAY_WIDTH
      dr == (row - registers[Y]) % DISPLAY_HEIGHT
  IN  IF dc < 8 /\ dr < LowNibble(Word) /\ index + dr < MEMORY_SIZE
        THEN BitOf(ArrayGet(memory, index + dr), 7 - dc)
        ELSE 0

CellAt(display, col, row) == ArrayGet(display, row * DISPLAY_WIDTH + col)

\* C16: a step on DXYN ends without a panic; each display cell becomes its
\* old value XOR the sprite's pixel for it (N rows of 8 pixels read from
\* memory at index, corner at column VX mod 64, row VY mod 32, wrapping at
\* the edges), and VF becomes 1 if a lit cell was turned off and 0 if not.
DrawXorsSprite ==
  [][ (Step /\ IsDraw) =>
        /\ panic' = NO_PANIC
        /\ \A col \in 0 .. DISPLAY_WIDTH - 1, row \in 0 .. DISPLAY_HEIGHT - 1 :
              CellAt(graphics', col, row)
                = BitXor(CellAt(graphics, col, row), SpritePixel(col, row))
        /\ registers'[REG_VF] =
              IF \E col \in 0 .. DISPLAY_WIDTH - 1, row \in 0 .. DISPLAY_HEIGHT - 1 :
                    CellAt(graphics, col, row) = 1 /\ SpritePixel(col, row) = 1
                THEN 1 ELSE 0
    ]_vars

----------------------------------------------------------------------------
(* Register block store and load, decimal digits *)

\* C17: a step on FX55 writes registers 0 .. X to memory[index .. index + X]
\* and a step on FX65 sets registers 0 .. X to memory[index .. index + X],
\* leaving the registers above X as they were; neither panics.  (A store,
\* then other values in the registers, then a load with the same index
\* therefore restores registers 0 .. X.)
BlockStoreAndLoad ==
  [][ /\ (Step /\ IsF(\H55) /\ index + X < MEMORY_SIZE) =>
            /\ panic' = NO_PANIC
            /\ \A i \in 0 .. X : ArrayGet(memory', index + i) = registers[i]
            /\ registers' = registers
      /\ (Step /\ IsF(\H65) /\ index + X < MEMORY_SIZE) =>
            /\ panic' = NO_PANIC
            /\ \A i \in 0 .. X : registers'[i] = ArrayGet(memory, index + i)
            /\ \A i \in X + 1 .. NUM_REGISTERS - 1 : registers'[i] = registers[i]
            /\ memory' = memory
    ]_vars

\* C18: a step on FX33 with index + 2 inside memory writes the hundreds,
\* tens and units digit of VX to memory[index], memory[index + 1] and
\* memory[index + 2], changes no other byte and does not panic; with
\* index + 2 outside memory the step panics and memory is unchanged.
DecimalDigits ==
  [][ (Step /\ IsF(\H33)) =>
        IF index + 2 <= MAX_ADDRESS
          THEN /\ panic' = NO_PANIC
               /\ \A a \in 0 .. MEMORY_SIZE - 1 :
                     ArrayGet(memory', a) =
                       CASE a = index     -> registers[X] \div 100
                         [] a = index + 1 -> (registers[X] \div 10) % 10
                         [] a = index + 2 -> registers[X] % 10
                         [] OTHER         -> ArrayGet(memory, a)
          ELSE /\ panic' # NO_PANIC
               /\ memory' = memory
    ]_vars

----------------------------------------------------------------------------
(* Reset *)

\* the canonical state for an image: every field zero, pc at the entry,
\* the font in memory[0 .. 79], the image from the entry on, zero elsewhere
\* (the addresses looked at are the font's, the image's and every one the
\* array lists: any other reads 0 and is to be 0)
Canonical(image) ==
  /\ \A i \in 0 .. NUM_REGISTERS - 1 : registers[i] = 0
  /\ index = 0
  /\ timer_delay = 0
  /\ timer_sound = 0
  /\ \A i \in 0 .. STACK_SIZE - 1 : stack[i] = 0
  /\ sp = 0
  /\ AllCellsOff(graphics)
  /\ \A k \in 0 .. NUM_KEYS - 1 : keypad[k] = 0
  /\ pc = \H200
  /\ \A a \in (0 .. 79) \cup (\H200 .. \H200 + Len(image) - 1) \cup DOMAIN memory :
        ArrayGet(memory, a) =
          IF a < 80 THEN FONTSET[a + 1]
          ELSE IF a >= \H200 /\ a < \H200 + Len(image) THEN image[a - \H200 + 1]
          ELSE 0
  /\ panic = NO_PANIC

\* C19: a reset with an image, in whatever state the machine is (run,
\* blocked, panicked, keys held), ends in the canonical state for that
\* image.
ResetIsCanonical ==
  [][ Reset => \E image \in ResetImages : Canonical(image)' ]_vars

\* a machine has been reset with the image 6105 1202 (no machine starts
\* with it)
ResetWithOtherImage ==
  /\ Canonical(Image(<<\H6105, \H1202>>))
  /\ Image(<<\H6105, \H1202>>) \notin Programs

----------------------------------------------------------------------------
(* Jump with offset *)

\* C20: a step on BNNN with NNN + V0 <= 0xFFF sets pc to NNN + V0 and
\* changes nothing else; with NNN + V0 > 0xFFF it ends in the invalid-jump
\* panic and changes nothing else: the sum, an address outside the 12-bit
\* address space, is not assigned to pc, which keeps the fetch's advance.
JumpWithOffset ==
  [][ (Step /\ CanFetch /\ TopNibble(Word) = \HB000) =>
        /\ IF NNN + registers[0] <= \HFFF
             THEN pc' = NNN + registers[0] /\ panic' = NO_PANIC
             ELSE pc' = pc + 2 /\ panic' = "SEGFAULT"
        /\ UNCHANGED <<registers, index, timer_delay, timer_sound, memory,
                       stack, sp, graphics, keypad>>
    ]_vars

\* BFFF with V0 = 1, one past the last address, has just been refused
JumpRefused ==
  /\ panic = "SEGFAULT"
  /\ Fetch(memory, pc - 2) = \HBFFF
  /\ registers[0] = 1

----------------------------------------------------------------------------
(* Key skips *)

IsE(k) == CanFetch /\ TopNibble(Word) = \HE000 /\ LowByte(Word) = k

\* C21: a step on EX9E or EXA1 does not panic whatever 8-bit value VX
\* holds: it reads the flag of one key in 0 .. 15, key VX when VX is in
\* 0 .. 15; EX9E advances pc by 4 if that flag is 1 and by 2 if not, EXA1
\* by 4 if it is 0 and by 2 if not, and nothing else changes.
KeySkips ==
  [][ (Step /\ (IsE(\H9E) \/ IsE(\HA1))) =>
        /\ panic' = NO_PANIC
        /\ \E key \in 0 .. NUM_KEYS - 1 :
              /\ registers[X] < NUM_KEYS => key = registers[X]
              /\ IsE(\H9E) => pc' = pc + (IF keypad[key] = 1 THEN 4 ELSE 2)
              /\ IsE(\HA1) => pc' = pc + (IF keypad[key] = 0 THEN 4 ELSE 2)
        /\ UNCHANGED <<registers, index, timer_delay, timer_sound, memory,
                       stack, sp, graphics, keypad>>
    ]_vars

----------------------------------------------------------------------------
(* Shifts *)

\* C22: after a step on 8XY6 register X holds v div 2, and after a step on
\* 8XYE it holds (2 * v) mod 256, where v is what register Y held before
\* the step, for every X and Y in 0 .. 15, Y = 15 included.
ShiftUsesOldValueOfY ==
  [][ /\ (Step /\ Is8XY(6)) => registers'[X] = registers[Y] \div 2
      /\ (Step /\ Is8XY(14)) => registers'[X] = (2 * registers[Y]) % 256
    ]_vars

----------------------------------------------------------------------------
(* Parity of pc *)

OddTarget ==
  \/ TopNibble(Word) \in {\H1000, \H2000} /\ NNN % 2 = 1
  \/ TopNibble(Word) = \HB000 /\ (NNN + registers[0]) % 2 = 1

StackedAddressesEven == \A i \in 0 .. sp - 1 : stack[i] % 2 = 0

----------------------------------------------------------------------------
(* State shared with the collaborators *)

\* C24: a step never changes the keypad; it changes the delay timer only on
\* FX15 and the sound timer only on FX18; it changes the display only on
\* 00E0 or DXYN.
CollaboratorStateFramed ==
  [][ Step =>
        /\ keypad' = keypad
        /\ timer_delay' # timer_delay => IsF(\H15)
        /\ timer_sound' # timer_sound => IsF(\H18)
        /\ graphics' # graphics => (CanFetch /\ (Word = \H00E0 \/ IsDraw))
    ]_vars

\* FX18 has just set the sound timer, with cells lit and a key held
SoundTimerSetDisplayKept ==
  /\ panic = NO_PANIC
  /\ pc >= ENTRY + 2
  /\ TopNibble(Fetch(memory, pc - 2)) = \HF000
  /\ LowByte(Fetch(memory, pc - 2)) = \H18
  /\ timer_sound = 10
  /\ ~AllCellsOff(graphics)
  /\ PressedKeys # {}

====
